---- MODULE Spec2Model ----
(***************************************************************************)
(* The matchmaking-and-relay engine of mcp-bearer-token/random_connect.py  *)
(* (class RandomConnectManager) as a state machine.                        *)
(*                                                                         *)
(* The store is the manager's fields.  Requests are served by threads;     *)
(* every `with self.lock:` block is one critical section, and a step of    *)
(* the model is either one critical section or one unlocked access to the  *)
(* store, so two requests interleave exactly where the code lets them.     *)
(***************************************************************************)
EXTENDS Integers, Sequences, FiniteSets, TLC

\* ------------------------------------------------------------------ bounds
\* Sessions (uuid4 values) handed out in one run.
MaxSessions == 2
\* Notifications waiting in the store at one time, all users together.
MaxNotifications == 2
\* Relayed messages waiting in the store at one time, all users together; a
\* recipient's queue is also followed when it is within MaxPending of QueueCap.
MaxPending == 1
\* Sessions two users went through, one after the other, before a run that
\* starts from a backlog (BacklogInit).
MaxRounds == 3

\* The cap on a recipient's queue of relayed messages (line 395).
QueueCap == 100

\* ------------------------------------------------------------ fixed sets
Users == {"A", "B", "C"}
Threads == {"t1", "t2"}
None == "none"
NoSession == 0
Free == "free"

\* A relay payload either matches a phone pattern or it does not.
Texts == {"hi", "9876543210"}
Hidden == "[hidden]"

\* Notification texts (find_partner line 174, end_chat line 202).
Connected == "Connected"
PartnerLeft == "PartnerLeft"

VARIABLES
    available_users,        \* deque of waiting users
    available_set,          \* set mirror of available_users
    active_pairs,           \* user -> partner, None when the key is absent
    user_states,            \* user -> profile record (present = key exists)
    pending_notifications,  \* user -> list of notifications ([] = key absent)
    pending_messages,       \* user -> list of relayed messages ([] = key absent)
    lock,                   \* Free or the thread holding self.lock
    next_session,           \* the next value uuid4 returns (all values differ)
    issued,                 \* history: the session ids stamped on profiles so far
    awaiting_first_relay,   \* history: paired users who have not called relay since
    untold,                 \* history: users whose partner left and who were not told
    fifo,                   \* history: the waiters in the order they started waiting
    pc,                     \* thread -> where it is in the request it serves
    req,                    \* thread -> the request: user, command, text
    locals,                 \* thread -> local variables of the running handler
    response                \* thread -> what the last finished request returned

vars == <<available_users, available_set, active_pairs, user_states,
          pending_notifications, pending_messages, lock,
          next_session, issued, awaiting_first_relay, untold, fifo,
          pc, req, locals, response>>

store == <<available_users, available_set, active_pairs, user_states,
           pending_notifications, pending_messages>>

history == <<issued, awaiting_first_relay, untold, fifo>>

\* ---------------------------------------------------------------- helpers
Range(s) == {s[i] : i \in 1..Len(s)}

Without(s, u) == SelectSeq(s, LAMBDA x : x # u)

\* The lengths of the lists of a dictionary, added up.
RECURSIVE TotalOver(_, _)
TotalOver(d, keys) ==
    IF keys = {} THEN 0
    ELSE LET k == CHOOSE x \in keys : TRUE
         IN  Len(d[k]) + TotalOver(d, keys \ {k})

Total(d) == TotalOver(d, Users)

\* A faulty slice, s[:n]: the oldest n.  C15 does not hold with it.
LastN_oldest(s, n) == IF Len(s) <= n THEN s ELSE SubSeq(s, 1, n)

\* s[-n:]
LastN(s, n) == IF Len(s) <= n THEN s ELSE SubSeq(s, Len(s) - n + 1, Len(s))

\* A faulty generator: it returns the value of the call before once more.
\* C9 does not hold with it.
uuid4_repeated == IF next_session > 1 THEN next_session - 1 ELSE next_session

\* uuid.uuid4(): a value no earlier call returned.
uuid4 == next_session

\* ------------------------------------------------------ mask_phone_numbers
\* Texts as Python sees them: sequences of characters.
Digits == {"0", "1", "2", "3", "4", "5", "6", "7", "8", "9"}
Letters == {"a", "d", "e", "h", "i", "n", "_"}
\* [-.\s] and \s.
Separators == {"-", ".", " "}
Whitespace == {" "}

HiddenChars == <<"[", "h", "i", "d", "d", "e", "n", "]">>

\* One element of a pattern: between min and max characters of chars, as many
\* as possible (a greedy quantifier), or the zero-width \b.
Item(chars, min, max) == [chars |-> chars, min |-> min, max |-> max, b |-> FALSE]
WordBoundary == [chars |-> {}, min |-> 0, max |-> 0, b |-> TRUE]
\* The upper end of {n,}: no text of the model is that long.
Unbounded == 1000

\* self.phone_patterns, lines 51-61, in the order of the list.
phone_patterns ==
    << <<Item({"+"}, 0, 1), Item(Digits, 1, 4), Item(Separators, 0, 1),
         Item(Digits, 10, Unbounded)>>,
       <<Item(Digits, 10, Unbounded)>>,
       <<Item({"("}, 1, 1), Item(Digits, 3, 3), Item({")"}, 1, 1),
         Item(Whitespace, 0, 1), Item(Digits, 3, 3), Item({"-"}, 0, 1),
         Item(Digits, 4, 4)>>,
       <<Item(Digits, 3, 3), Item(Separators, 0, 1), Item(Digits, 3, 3),
         Item(Separators, 0, 1), Item(Digits, 4, 4)>>,
       <<Item({"+"}, 1, 1), Item({"9"}, 1, 1), Item({"1"}, 1, 1),
         Item(Separators, 0, 1), Item(Digits, 10, 10)>>,
       <<Item({"9"}, 1, 1), Item({"1"}, 1, 1), Item(Separators, 0, 1),
         Item(Digits, 10, 10)>>,
       <<Item(Digits, 5, 5), Item(Separators, 0, 1), Item(Digits, 5, 5)>>,
       <<Item(Digits, 4, 4), Item(Separators, 0, 1), Item(Digits, 3, 3),
         Item(Separators, 0, 1), Item(Digits, 3, 3)>>,
       <<Item(Digits, 2, 2), Item(Separators, 0, 1), Item(Digits, 4, 4),
         Item(Separators, 0, 1), Item(Digits, 4, 4)>> >>

\* The pattern of line 76, \b\d{8,}\b.
digit_run_pattern == <<WordBoundary, Item(Digits, 8, Unbounded), WordBoundary>>

\* \w at position i of text; outside the text there is no character.
IsWord(text, i) ==
    i >= 1 /\ i <= Len(text) /\ text[i] \in Digits \cup Letters

\* How many characters of chars stand at pos, pos + 1, ..., at most limit.
RECURSIVE Run(_, _, _, _)
Run(text, pos, chars, limit) ==
    IF limit = 0 \/ pos > Len(text) \/ text[pos] \notin chars
    THEN 0
    ELSE 1 + Run(text, pos + 1, chars, limit - 1)

\* re's backtracking match of pattern[k..] at pos: the position after the
\* match it settles on, or 0 when there is none.  A quantifier first takes all
\* it can and gives characters back one at a time (MatchWith).
RECURSIVE MatchEnd(_, _, _, _)
RECURSIVE MatchWith(_, _, _, _, _)
MatchEnd(pattern, k, text, pos) ==
    IF k > Len(pattern)
    THEN pos
    ELSE IF pattern[k].b
    THEN IF IsWord(text, pos - 1) # IsWord(text, pos)
         THEN MatchEnd(pattern, k + 1, text, pos)
         ELSE 0
    ELSE MatchWith(pattern, k, text, pos,
                   Run(text, pos, pattern[k].chars, pattern[k].max))

MatchWith(pattern, k, text, pos, n) ==
    IF n < pattern[k].min
    THEN 0
    ELSE LET end == MatchEnd(pattern, k + 1, text, pos + n)
         IN  IF end # 0 THEN end ELSE MatchWith(pattern, k, text, pos, n - 1)

\* re.sub(pattern, '[hidden]', text) from pos on: the leftmost match is
\* replaced and the scan goes on behind it.
RECURSIVE Sub(_, _, _)
Sub(pattern, text, pos) ==
    IF pos > Len(text)
    THEN <<>>
    ELSE LET end == MatchEnd(pattern, 1, text, pos)
         IN  IF end # 0
             THEN HiddenChars \o Sub(pattern, text, end)
             ELSE <<text[pos]>> \o Sub(pattern, text, pos + 1)

\* The loop of lines 71-73 from the k-th pattern on.
RECURSIVE SubAll(_, _)
SubAll(k, text) ==
    IF k > Len(phone_patterns)
    THEN text
    ELSE SubAll(k + 1, Sub(phone_patterns[k], text, 1))

\* mask_phone_numbers, lines 65-78, on a sequence of characters.
mask_characters(text) ==
    IF text = <<>> THEN text ELSE Sub(digit_run_pattern, SubAll(1, text), 1)

\* A faulty redaction: it hides every text, the empty one too.  C18 does not
\* hold with it.
mask_phone_numbers_eager(text) == Hidden

\* The payloads of the requests and what redaction makes of them, as
\* characters.
Characters(text) ==
    CASE text = "" -> <<>>
      [] text = "hi" -> <<"h", "i">>
      [] text = "9876543210" -> <<"9", "8", "7", "6", "5", "4", "3", "2", "1", "0">>
      [] text = Hidden -> HiddenChars

\* mask_phone_numbers on the payloads, computed once for each of them.
MaskedPayload ==
    [text \in Texts \cup {"", Hidden} |->
        CHOOSE masked \in Texts \cup {"", Hidden} :
            Characters(masked) = mask_characters(Characters(text))]

mask_phone_numbers(text) == MaskedPayload[text]

Message(text, sender, epoch) == [text |-> text, sender |-> sender, epoch |-> epoch]

NoProfile ==
    [present |-> FALSE, phone_masking_enabled |-> TRUE,
     partner_id |-> None, partner_session_id |-> NoSession]

UserState ==
    [present |-> TRUE, phone_masking_enabled |-> TRUE,
     partner_id |-> None, partner_session_id |-> NoSession]

NoReq == [user |-> None, cmd |-> "", text |-> ""]

NoLocals ==
    [partner_id |-> None, ref |-> None, notifications |-> <<>>,
     flag |-> FALSE, message |-> "", masked_message |-> "",
     inactive_users |-> {}]

NoResponse ==
    [kind |-> "", text |-> "", notifications |-> <<>>, messages |-> <<>>,
     active_users |-> 0, waiting_users |-> 0, active_pairs |-> 0]

Reply(kind) == [NoResponse EXCEPT !.kind = kind]

\* ------------------------------------------------------------- wait queue
Queue(users, set) == [users |-> users, set |-> set]

_queue_add(q, user_id) ==
    IF user_id \notin q.set
    THEN Queue(Append(q.users, user_id), q.set \cup {user_id})
    ELSE q

\* A faulty removal: it leaves the queue as it is.  C24 does not hold with it.
_queue_remove_skipped(q, user_id) == q

_queue_remove(q, user_id) ==
    IF user_id \in q.set
    THEN Queue(IF Len(q.users) > 0 /\ Head(q.users) = user_id
               THEN Tail(q.users)
               ELSE Without(q.users, user_id),
               q.set \ {user_id})
    ELSE q

\* A faulty loop: it takes the candidate from the right end of the deque.
\* C8 does not hold with it.
RECURSIVE PopCandidate_right(_)
PopCandidate_right(q) ==
    IF Len(q.users) = 0
    THEN [partner_id |-> None, queue |-> q]
    ELSE LET last == q.users[Len(q.users)]
             front == SubSeq(q.users, 1, Len(q.users) - 1)
         IN  IF last \in q.set
             THEN [partner_id |-> last, queue |-> Queue(front, q.set \ {last})]
             ELSE PopCandidate_right(Queue(front, q.set))

\* The loop of find_partner lines 144-149: pop from the left until a candidate
\* that is still in available_set turns up, or the deque is empty.
RECURSIVE PopCandidate(_)
PopCandidate(q) ==
    IF Len(q.users) = 0
    THEN [partner_id |-> None, queue |-> q]
    ELSE IF Head(q.users) \in q.set
         THEN [partner_id |-> Head(q.users),
               queue |-> Queue(Tail(q.users), q.set \ {Head(q.users)})]
         ELSE PopCandidate(Queue(Tail(q.users), q.set))

\* ------------------------------------------------------------------ state
Init ==
    /\ available_users = <<>>
    /\ available_set = {}
    /\ active_pairs = [u \in Users |-> None]
    /\ user_states = [u \in Users |-> NoProfile]
    /\ pending_notifications = [u \in Users |-> <<>>]
    /\ pending_messages = [u \in Users |-> <<>>]
    /\ lock = Free
    /\ next_session = 1
    /\ issued = {}
    /\ awaiting_first_relay = {}
    /\ untold = {}
    /\ fifo = <<>>
    /\ pc = [t \in Threads |-> "idle"]
    /\ req = [t \in Threads |-> NoReq]
    /\ locals = [t \in Threads |-> NoLocals]
    /\ response = [t \in Threads |-> NoResponse]

\* A finished call hands its response to the transport layer before anything
\* else runs: returning touches no shared state, so it commutes with every step
\* of another thread and is taken first.
NoneReturning == \A t \in Threads : pc[t] # "done"

Finish(t, r) ==
    /\ pc' = [pc EXCEPT ![t] = "done"]
    /\ response' = [response EXCEPT ![t] = r]
    /\ locals' = [locals EXCEPT ![t] = NoLocals]

Goto(t, label, l) ==
    /\ pc' = [pc EXCEPT ![t] = label]
    /\ locals' = [locals EXCEPT ![t] = l]
    /\ UNCHANGED response

\* ------------------------------------------------ get_or_create_user_state
\* A faulty lookup: it hands every caller a fresh profile.  C17 does not hold
\* with it.
get_or_create_user_state_fresh(user_id) ==
    [user_states EXCEPT ![user_id] = UserState]

\* user_states after the call.  The call also stamps last_activity, which only
\* cleanup_inactive_users reads (see there).
get_or_create_user_state(user_id) ==
    IF user_states[user_id].present
    THEN user_states
    ELSE [user_states EXCEPT ![user_id] = UserState]

\* ----------------------------------------------------------------- end_chat
\* end_chat lines 184-201 (paired: the lock stays held for the append to the
\* list that setdefault returned) or 184-213 (not paired).  us is user_states
\* as the caller found it.  #again goes on to find_partner whatever end_chat
\* returns.
end_chat(t, user_id, cmd, us, l) ==
    LET partner_id == active_pairs[user_id]
        q == _queue_remove(Queue(available_users, available_set), user_id)
    IN  IF partner_id # None
        THEN /\ Total(pending_notifications) < MaxNotifications
             /\ active_pairs' = [active_pairs EXCEPT ![user_id] = None,
                                                     ![partner_id] = None]
             /\ user_states' =
                  [u \in Users |->
                     IF u \in {user_id, partner_id} /\ us[u].present
                     THEN [us[u] EXCEPT !.partner_id = None,
                                        !.partner_session_id = NoSession]
                     ELSE us[u]]
             /\ lock' = t
             /\ Goto(t, "end_chat_notify",
                     [l EXCEPT !.partner_id = partner_id, !.ref = "dict"])
             /\ awaiting_first_relay' = awaiting_first_relay \ {user_id, partner_id}
             /\ UNCHANGED <<available_users, available_set, fifo>>
        ELSE /\ available_users' = q.users
             /\ available_set' = q.set
             /\ fifo' = Without(fifo, user_id)
             /\ user_states' = us
             /\ UNCHANGED awaiting_first_relay
             /\ IF cmd = "again"
                THEN Goto(t, "find_partner", l)
                ELSE Finish(t, Reply("not_in_chat"))
             /\ UNCHANGED <<active_pairs, lock>>

\* -------------------------------------------------------- process_message
\* The text that follows the command: only #r reads it.
Payloads(cmd, texts) == IF cmd = "r" THEN texts \cup {""} ELSE {""}

\* process_message from its first critical section (line 242) to the point
\* where the handler first meets another thread's writes:
\*   #meet         the unlocked get_partner of _handle_meet_command (295-298);
\*   #bye, #again  the critical section of end_chat (313, 326);
\*   #hide         the critical section of toggle_phone_masking (221) and the
\*                 unlocked read of the flag (222, right-hand side);
\*   #m            nothing more (the pops of line 356-357 are steps of their own);
\*   #r            the unlocked read of the flag and the masking (245-246), and
\*                 the usage reply (272-274).
\* get_or_create_user_state writes only the caller's profile, which no other
\* thread reads before the caller has one, so what runs between line 242 and
\* that point could as well have run before line 242.
process_message(t, user_id, cmd, text) ==
    /\ pc[t] = "idle"
    /\ NoneReturning
    /\ lock = Free
    /\ req' = [req EXCEPT ![t] = [user |-> user_id, cmd |-> cmd, text |-> text]]
    /\ LET us == get_or_create_user_state(user_id)
           message == IF us[user_id].phone_masking_enabled
                      THEN mask_phone_numbers(text) ELSE text
           l == [NoLocals EXCEPT !.message = message]
       IN  CASE cmd = "meet" ->
                  /\ IF active_pairs[user_id] # None
                     THEN Finish(t, Reply("already_in_chat"))
                     ELSE Goto(t, "find_partner", l)
                  /\ user_states' = us
                  /\ UNCHANGED <<available_users, available_set, active_pairs, lock,
                                 awaiting_first_relay, fifo>>
             [] cmd \in {"bye", "again"} ->
                  end_chat(t, user_id, cmd, us, l)
             [] cmd = "hide" ->
                  /\ Goto(t, "toggle_store",
                          [l EXCEPT !.flag = us[user_id].phone_masking_enabled])
                  /\ user_states' = us
                  /\ UNCHANGED <<available_users, available_set, active_pairs, lock,
                                 awaiting_first_relay, fifo>>
             [] cmd = "m" ->
                  /\ Goto(t, "inbox_notifications", l)
                  /\ user_states' = us
                  /\ UNCHANGED <<available_users, available_set, active_pairs, lock,
                                 awaiting_first_relay, fifo>>
             [] cmd = "r" ->
                  /\ IF message = ""
                     THEN Finish(t, Reply("usage"))
                     ELSE Goto(t, "routing", l)
                  /\ user_states' = us
                  /\ UNCHANGED <<available_users, available_set, active_pairs, lock,
                                 awaiting_first_relay, fifo>>
    /\ UNCHANGED <<pending_notifications, pending_messages, next_session,
                   issued, untold>>

\* ------------------------------------------------------------- find_partner
\* find_partner lines 133-172: one critical section up to the setdefault that
\* fetches the partner's notification list; the lock stays held for the append.
find_partner(t) ==
    /\ pc[t] = "find_partner"
    /\ NoneReturning
    /\ lock = Free
    /\ LET user_id == req[t].user
           q1 == _queue_remove(Queue(available_users, available_set), user_id)
           pop == PopCandidate(q1)
           partner_id == pop.partner_id
           waiting == _queue_add(IF Len(q1.users) = 0 THEN q1 ELSE pop.queue, user_id)
           session_id == uuid4
       IN  IF Len(q1.users) = 0 \/ partner_id = None
           THEN /\ available_users' = waiting.users
                /\ available_set' = waiting.set
                /\ fifo' = Append(Without(fifo, user_id), user_id)
                /\ Finish(t, Reply("waiting"))
                /\ UNCHANGED <<active_pairs, user_states, next_session, lock,
                               issued, awaiting_first_relay>>
           ELSE /\ next_session <= MaxSessions
                /\ Total(pending_notifications) < MaxNotifications
                /\ available_users' = pop.queue.users
                /\ available_set' = pop.queue.set
                /\ active_pairs' = [active_pairs EXCEPT ![user_id] = partner_id,
                                                        ![partner_id] = user_id]
                /\ next_session' = next_session + 1
                /\ issued' = issued \cup {session_id}
                /\ awaiting_first_relay' = awaiting_first_relay \cup {user_id, partner_id}
                /\ fifo' = LET others == Without(fifo, user_id)
                           IN  IF others = <<>> THEN others ELSE Tail(others)
                /\ user_states' =
                     [u \in Users |->
                        IF u = user_id /\ user_states[u].present
                        THEN [user_states[u] EXCEPT !.partner_id = partner_id,
                                                    !.partner_session_id = session_id]
                        ELSE IF u = partner_id /\ user_states[u].present
                        THEN [user_states[u] EXCEPT !.partner_id = user_id,
                                                    !.partner_session_id = session_id]
                        ELSE user_states[u]]
                /\ lock' = t
                /\ Goto(t, "find_partner_notify",
                        [locals[t] EXCEPT !.partner_id = partner_id, !.ref = "dict"])
    /\ UNCHANGED <<pending_notifications, pending_messages, req, untold>>

\* list.append on the list that setdefault returned.  The list is the one in
\* the dictionary (ref "dict") unless an unlocked pop took it out meanwhile:
\* then it is the popping thread's local list (ref = that thread) until that
\* thread has built its response, and garbage afterwards (ref "lost").
\* _handle_again_command keeps what end_chat returned (line 326).
AppendTo(t, note, label, r) ==
    LET ref == locals[t].ref
        partner_id == locals[t].partner_id
    IN  /\ pending_notifications' =
             IF ref = "dict"
             THEN [pending_notifications EXCEPT ![partner_id] = Append(@, note)]
             ELSE pending_notifications
        /\ locals' =
             [s \in Threads |->
                IF s = t
                THEN IF label = "find_partner"
                     THEN [NoLocals EXCEPT !.partner_id = partner_id]
                     ELSE NoLocals
                ELSE IF s = ref
                THEN [locals[s] EXCEPT !.notifications = Append(@, note)]
                ELSE locals[s]]
        /\ pc' = [pc EXCEPT ![t] = label]
        /\ response' = [response EXCEPT ![t] = r]
        /\ lock' = Free

\* find_partner lines 173-180.
find_partner_notify(t) ==
    /\ pc[t] = "find_partner_notify"
    /\ NoneReturning
    /\ lock = t
    /\ AppendTo(t, Connected, "done", Reply("connected"))
    /\ UNCHANGED <<available_users, available_set, active_pairs, user_states,
                   pending_messages, next_session, req, history>>

\* end_chat lines 201-206.
end_chat_notify(t) ==
    /\ pc[t] = "end_chat_notify"
    /\ NoneReturning
    /\ lock = t
    /\ IF req[t].cmd = "again"
       THEN AppendTo(t, PartnerLeft, "find_partner", NoResponse)
       ELSE AppendTo(t, PartnerLeft, "done", Reply("chat_ended"))
    /\ untold' = untold \cup {locals[t].partner_id}
    /\ UNCHANGED <<available_users, available_set, active_pairs, user_states,
                   pending_messages, next_session, req,
                   issued, awaiting_first_relay, fifo>>

\* ---------------------------------------------------- toggle_phone_masking
\* Line 222, the assignment (without the lock), and lines 223-224, 343-344.
toggle_phone_masking(t) ==
    /\ pc[t] = "toggle_store"
    /\ NoneReturning
    /\ user_states' = [user_states EXCEPT
                         ![req[t].user].phone_masking_enabled = ~locals[t].flag]
    /\ Finish(t, Reply(IF ~locals[t].flag THEN "masking_on" ELSE "masking_off"))
    /\ UNCHANGED <<available_users, available_set, active_pairs,
                   pending_notifications, pending_messages, lock, next_session, req,
                   history>>

\* -------------------------------------------------- _handle_message_routing
\* A faulty validation: it accepts every pair of profiles.  C10 does not hold
\* with it.
session_mismatch_unchecked(me, partner) == FALSE

\* The validation of lines 384-386 on the two profiles (user_states.get).
session_mismatch(me, partner) ==
    \/ ~me.present
    \/ ~partner.present
    \/ me.partner_session_id # partner.partner_session_id

\* Lines 371-392: one critical section up to the setdefault that fetches the
\* partner's message list; the lock stays held for the append.
_handle_message_routing(t) ==
    /\ pc[t] = "routing"
    /\ NoneReturning
    /\ lock = Free
    /\ LET user_id == req[t].user
           notifications == pending_notifications[user_id]
           partner_id == active_pairs[user_id]
           me == user_states[user_id]
           partner == user_states[partner_id]
           message == locals[t].message
           masked_message == IF me.phone_masking_enabled
                             THEN mask_phone_numbers(message) ELSE message
       IN  /\ pending_notifications' = [pending_notifications EXCEPT ![user_id] = <<>>]
           /\ IF notifications # <<>>
              THEN /\ Finish(t, [Reply("notification") EXCEPT
                                   !.text = notifications[Len(notifications)]])
                   /\ UNCHANGED lock
              ELSE IF partner_id = None
              THEN /\ Finish(t, Reply("no_partner"))
                   /\ UNCHANGED lock
              ELSE IF session_mismatch(me, partner)
              THEN /\ Finish(t, Reply("no_partner"))
                   /\ UNCHANGED lock
              ELSE /\ \/ Total(pending_messages) < MaxPending
                      \/ Len(pending_messages[partner_id]) >= QueueCap - MaxPending
                   /\ lock' = t
                   /\ Goto(t, "routing_append",
                           [locals[t] EXCEPT !.partner_id = partner_id,
                                             !.masked_message = masked_message,
                                             !.ref = "dict"])
           /\ awaiting_first_relay' = awaiting_first_relay \ {user_id}
           /\ untold' = IF notifications # <<>>
                            /\ notifications[Len(notifications)] = PartnerLeft
                         THEN untold \ {user_id} ELSE untold
    /\ UNCHANGED <<available_users, available_set, active_pairs, user_states,
                   pending_messages, next_session, req, issued, fifo>>

\* A faulty cap: it drops the message that just arrived.  C11 does not hold
\* with it.
Capped_newest(queue) ==
    IF Len(queue) > QueueCap THEN SubSeq(queue, 1, Len(queue) - 1) ELSE queue

\* Lines 395-397: above the cap the oldest message goes.
Capped(queue) == IF Len(queue) > QueueCap THEN Tail(queue) ELSE queue

\* Lines 394-401: append, drop the oldest above the cap, confirm.
routing_append(t) ==
    /\ pc[t] = "routing_append"
    /\ NoneReturning
    /\ lock = t
    /\ LET user_id == req[t].user
           partner_id == locals[t].partner_id
           m == Message(locals[t].masked_message, user_id,
                        user_states[user_id].partner_session_id)
       IN  pending_messages' =
             IF locals[t].ref = "dict"
             THEN [pending_messages EXCEPT ![partner_id] = Capped(Append(@, m))]
             ELSE pending_messages
    /\ lock' = Free
    /\ Finish(t, [Reply("sent") EXCEPT !.text = locals[t].message])
    /\ UNCHANGED <<available_users, available_set, active_pairs, user_states,
                   pending_notifications, next_session, req, history>>

\* ---------------------------------------------------- _handle_inbox_command
\* Line 356: the notifications are popped without the lock.  A thread that is
\* about to append to that list now appends to the popped one.
inbox_notifications(t) ==
    /\ pc[t] = "inbox_notifications"
    /\ NoneReturning
    /\ LET user_id == req[t].user
       IN  /\ pending_notifications' = [pending_notifications EXCEPT ![user_id] = <<>>]
           /\ locals' =
                [s \in Threads |->
                   IF s = t
                   THEN [locals[t] EXCEPT !.notifications = pending_notifications[user_id]]
                   ELSE IF /\ pc[s] \in {"find_partner_notify", "end_chat_notify"}
                           /\ locals[s].partner_id = user_id
                           /\ locals[s].ref = "dict"
                   THEN [locals[s] EXCEPT !.ref = t]
                   ELSE locals[s]]
    /\ pc' = [pc EXCEPT ![t] = "inbox_messages"]
    /\ UNCHANGED <<available_users, available_set, active_pairs, user_states,
                   pending_messages, lock, next_session, req, response, history>>

\* Lines 357-367: the messages are popped without the lock and the response is
\* built from the two popped lists; what is appended to them later is lost.
inbox_messages(t) ==
    /\ pc[t] = "inbox_messages"
    /\ NoneReturning
    /\ LET user_id == req[t].user
           notifications == locals[t].notifications
           messages == pending_messages[user_id]
       IN  /\ pending_messages' = [pending_messages EXCEPT ![user_id] = <<>>]
           /\ response' = [response EXCEPT ![t] =
                IF notifications = <<>> /\ messages = <<>>
                THEN Reply("inbox_empty")
                ELSE [Reply("inbox") EXCEPT
                        !.notifications = LastN(notifications, 3),
                        !.messages = LastN(messages, 5)]]
           /\ locals' =
                [s \in Threads |->
                   IF s = t THEN NoLocals
                   ELSE IF \/ locals[s].ref = t
                           \/ /\ pc[s] = "routing_append"
                              /\ locals[s].partner_id = user_id
                              /\ locals[s].ref = "dict"
                   THEN [locals[s] EXCEPT !.ref = "lost"]
                   ELSE locals[s]]
           /\ untold' = IF PartnerLeft \in Range(LastN(notifications, 3))
                         THEN untold \ {user_id} ELSE untold
    /\ pc' = [pc EXCEPT ![t] = "done"]
    /\ UNCHANGED <<available_users, available_set, active_pairs, user_states,
                   pending_notifications, lock, next_session, req,
                   issued, awaiting_first_relay, fifo>>

\* --------------------------------------------------------- get_system_stats
\* Lines 426-432.
get_system_stats(t) ==
    /\ pc[t] = "idle"
    /\ NoneReturning
    /\ lock = Free
    /\ req' = [req EXCEPT ![t] = [NoReq EXCEPT !.cmd = "stats"]]
    /\ Finish(t, [Reply("stats") EXCEPT
                    !.active_users = Cardinality({u \in Users : user_states[u].present}),
                    !.waiting_users = Len(available_users),
                    !.active_pairs =
                        Cardinality({u \in Users : active_pairs[u] # None}) \div 2])
    /\ UNCHANGED <<store, lock, next_session, history>>

\* --------------------------------------------------- cleanup_inactive_users
\* Lines 405-416.  inactive_users are the users whose last_activity lies further
\* back than the timeout.  The clock and the timeout are the caller's, and a
\* user refreshes last_activity with any request, also one that changes nothing
\* else (a bare #r), so every set of users with a profile can be the inactive
\* ones.  With none, the sweep is over.  With one, the sweep calls end_chat,
\* whose `with self.lock` asks for the lock the sweep holds: threading.Lock is
\* not reentrant, so the thread waits at "cleanup_end_chat" for a release that
\* only itself could do.
cleanup_inactive_users(t, inactive_users) ==
    /\ pc[t] = "idle"
    /\ NoneReturning
    /\ lock = Free
    /\ req' = [req EXCEPT ![t] = [NoReq EXCEPT !.cmd = "cleanup"]]
    /\ IF inactive_users = {}
       THEN /\ Finish(t, Reply("cleaned"))
            /\ UNCHANGED lock
       ELSE /\ lock' = t
            /\ Goto(t, "cleanup_end_chat",
                    [NoLocals EXCEPT !.inactive_users = inactive_users])
    /\ UNCHANGED <<store, next_session, history>>

\* Lines 414-422, from the sweep's first call of end_chat on: end_chat asks for
\* the lock again (line 184), ends the chat of the inactive user, and the sweep
\* deletes the profile.  The sweep holds the lock since line 405, so the guard
\* is false in every state that cleanup_inactive_users leaves behind, and the
\* step is part of no specification below; it is what the sweep would do.
cleanup_end_chat(t) ==
    /\ pc[t] = "cleanup_end_chat"
    /\ lock = Free
    /\ \E user_id \in locals[t].inactive_users :
         LET partner_id == active_pairs[user_id]
             q == _queue_remove(Queue(available_users, available_set), user_id)
             rest == locals[t].inactive_users \ {user_id}
         IN  /\ active_pairs' =
                  IF partner_id # None
                  THEN [active_pairs EXCEPT ![user_id] = None, ![partner_id] = None]
                  ELSE active_pairs
             /\ user_states' =
                  [u \in Users |->
                     IF u = user_id THEN NoProfile
                     ELSE IF u = partner_id /\ user_states[u].present
                     THEN [user_states[u] EXCEPT !.partner_id = None,
                                                 !.partner_session_id = NoSession]
                     ELSE user_states[u]]
             /\ pending_notifications' =
                  IF partner_id # None
                  THEN [pending_notifications EXCEPT ![partner_id] = Append(@, PartnerLeft)]
                  ELSE pending_notifications
             /\ available_users' = IF partner_id # None THEN available_users ELSE q.users
             /\ available_set' = IF partner_id # None THEN available_set ELSE q.set
             /\ fifo' = IF partner_id # None THEN fifo ELSE Without(fifo, user_id)
             /\ awaiting_first_relay' =
                  IF partner_id # None
                  THEN awaiting_first_relay \ {user_id, partner_id}
                  ELSE awaiting_first_relay
             /\ untold' = IF partner_id # None THEN untold \cup {partner_id} ELSE untold
             /\ IF rest = {}
                THEN /\ Finish(t, Reply("cleaned"))
                     /\ lock' = Free
                ELSE /\ Goto(t, "cleanup_end_chat",
                             [locals[t] EXCEPT !.inactive_users = rest])
                     /\ lock' = t
    /\ UNCHANGED <<pending_messages, next_session, issued, req>>

\* The response leaves the core.
Return(t) ==
    /\ pc[t] = "done"
    /\ pc' = [pc EXCEPT ![t] = "idle"]
    /\ req' = [req EXCEPT ![t] = NoReq]
    /\ response' = [response EXCEPT ![t] = NoResponse]
    /\ UNCHANGED <<store, lock, next_session, history, locals>>


\* ----------------------------------------------------------- specifications
\* Requests with a command of cmds and, for #r, a payload of texts.
Request(t, cmds, texts) ==
    \E user_id \in Users, cmd \in cmds :
        \E text \in Payloads(cmd, texts) : process_message(t, user_id, cmd, text)

Profiles == {u \in Users : user_states[u].present}

Plain == {"hi"}

\* The whole engine, one call at a time: every command, both kinds of payload,
\* and the maintenance calls.
Next ==
    \E t \in {"t1"} :
        \/ Request(t, {"meet", "bye", "again", "hide", "m", "r"}, Texts)
        \/ find_partner(t)
        \/ find_partner_notify(t)
        \/ end_chat_notify(t)
        \/ toggle_phone_masking(t)
        \/ _handle_message_routing(t)
        \/ routing_append(t)
        \/ inbox_notifications(t)
        \/ inbox_messages(t)
        \/ get_system_stats(t)
        \/ \E inactive_users \in SUBSET Profiles :
             cleanup_inactive_users(t, inactive_users)
        \/ Return(t)

Spec == Init /\ [][Next]_vars

\* The matchmaking, two requests at a time: matching, ending, rematching and
\* draining.
MatchNext ==
    \E t \in Threads :
        \/ Request(t, {"meet", "bye", "again", "m"}, {})
        \/ find_partner(t)
        \/ find_partner_notify(t)
        \/ end_chat_notify(t)
        \/ inbox_notifications(t)
        \/ inbox_messages(t)
        \/ Return(t)

MatchSpec == Init /\ [][MatchNext]_vars

\* The relay, two requests at a time: matching, ending and relaying.
RelayNext ==
    \E t \in Threads :
        \/ Request(t, {"meet", "bye", "r"}, Plain)
        \/ find_partner(t)
        \/ find_partner_notify(t)
        \/ end_chat_notify(t)
        \/ _handle_message_routing(t)
        \/ routing_append(t)
        \/ Return(t)

RelaySpec == Init /\ [][RelayNext]_vars

\* The wait queue with several waiters.  Through find_partner alone the deque
\* never holds two users (line 138 adds to an empty deque only), so the order
\* of the deque is exercised by seating users with _queue_add directly, as a
\* unit test of the queue does, and serving requests one at a time.
Seat(user_id) ==
    /\ \A t \in Threads : pc[t] = "idle"
    /\ lock = Free
    /\ active_pairs[user_id] = None
    /\ LET q == _queue_add(Queue(available_users, available_set), user_id)
       IN  /\ available_users' = q.users
           /\ available_set' = q.set
    /\ fifo' = IF user_id \in Range(fifo) THEN fifo ELSE Append(fifo, user_id)
    /\ UNCHANGED <<active_pairs, user_states, pending_notifications,
                   pending_messages, lock, next_session, issued,
                   awaiting_first_relay, untold, pc, req, locals, response>>

QueueNext ==
    \/ \E user_id \in Users : Seat(user_id)
    \/ \E t \in {"t1"} :
        \/ Request(t, {"meet", "bye", "again", "m"}, {})
        \/ find_partner(t)
        \/ find_partner_notify(t)
        \/ end_chat_notify(t)
        \/ inbox_notifications(t)
        \/ inbox_messages(t)
        \/ Return(t)

QueueSpec == Init /\ [][QueueNext]_vars

\* Matching and leaving on two threads, and the statistics.
MeetNext ==
    \E t \in Threads :
        \/ Request(t, {"meet", "bye"}, {})
        \/ find_partner(t)
        \/ find_partner_notify(t)
        \/ end_chat_notify(t)
        \/ get_system_stats(t)
        \/ Return(t)

MeetSpec == Init /\ [][MeetNext]_vars

\* The masking switch on two threads.
HideNext ==
    \E t \in Threads :
        \/ Request(t, {"hide"}, {})
        \/ toggle_phone_masking(t)
        \/ Return(t)

HideSpec == Init /\ [][HideNext]_vars

\* The relay against the drain, two requests at a time: matching, relaying
\* and draining.
DrainNext ==
    \E t \in Threads :
        \/ Request(t, {"meet", "r", "m"}, Plain)
        \/ find_partner(t)
        \/ find_partner_notify(t)
        \/ _handle_message_routing(t)
        \/ routing_append(t)
        \/ inbox_notifications(t)
        \/ inbox_messages(t)
        \/ Return(t)

DrainSpec == Init /\ [][DrainNext]_vars

\* ------------------------------------------------------ redaction by itself
Rep(c, n) == [i \in 1..n |-> c]

\* Texts with a phone number in each of the formats of phone_patterns, near
\* misses of them, and texts without digits.
Cores ==
    { <<>>,
      <<"h", "i">>,
      <<"9", "8", "7", "6", "5", "4", "3", "2", "1", "0">>,
      Rep("7", 7), Rep("7", 8), Rep("7", 9), Rep("7", 10), Rep("7", 12),
      Rep("7", 3) \o <<"-">> \o Rep("7", 3) \o <<"-">> \o Rep("7", 4),
      Rep("7", 3) \o <<" ">> \o Rep("7", 7),
      <<"(">> \o Rep("7", 3) \o <<")", " ">> \o Rep("7", 3) \o <<"-">> \o Rep("7", 4),
      <<"(">> \o Rep("7", 3) \o <<")">> \o Rep("7", 7),
      <<"+", "9", "1", "-">> \o Rep("7", 10),
      <<"9", "1", " ">> \o Rep("7", 10),
      <<"+", "7", " ">> \o Rep("7", 10),
      Rep("7", 5) \o <<".">> \o Rep("7", 5),
      Rep("7", 4) \o <<"-">> \o Rep("7", 3) \o <<"-">> \o Rep("7", 3),
      Rep("7", 2) \o <<" ">> \o Rep("7", 4) \o <<" ">> \o Rep("7", 4),
      Rep("7", 7) \o <<"-">> \o Rep("7", 3),
      Rep("7", 3) \o <<"-">> \o Rep("7", 4),
      Rep("7", 2) \o <<"-">> \o Rep("7", 4) \o <<"-">> \o Rep("7", 3) }

\* What stands before and behind them.
Prefixes ==
    { <<>>, <<"a">>, <<"7">>, <<" ">>, <<"-">>, <<"(">>, <<"+", "9", "1">>,
      Rep("7", 8) \o <<" ">>,
      <<"i", "d">> \o Rep("7", 8) \o <<" ">> }

Suffixes ==
    { <<>>, <<"a">>, <<"7">>, <<" ">>, <<"-", "7">>, HiddenChars,
      <<" ">> \o Rep("7", 9),
      <<" ", "i", "d", "_">> \o Rep("7", 9) }

Inputs == {p \o c \o s : p \in Prefixes, c \in Cores, s \in Suffixes}

\* The function is called on a text, and again on what it returned.
MaskInit ==
    \E text \in Inputs :
        /\ available_users = <<>>
        /\ available_set = {}
        /\ active_pairs = [u \in Users |-> None]
        /\ user_states = [u \in Users |-> NoProfile]
        /\ pending_notifications = [u \in Users |-> <<>>]
        /\ pending_messages = [u \in Users |-> <<>>]
        /\ lock = Free
        /\ next_session = 1
        /\ issued = {}
        /\ awaiting_first_relay = {}
        /\ untold = {}
        /\ fifo = <<>>
        /\ pc = [t \in Threads |-> IF t = "t1" THEN "mask" ELSE "idle"]
        /\ req = [t \in Threads |->
                    IF t = "t1" THEN [NoReq EXCEPT !.cmd = "mask", !.text = text]
                    ELSE NoReq]
        /\ locals = [t \in Threads |-> NoLocals]
        /\ response = [t \in Threads |-> NoResponse]

mask_once(t) ==
    /\ pc[t] = "mask"
    /\ Goto(t, "mask_again",
            [NoLocals EXCEPT !.message = mask_characters(req[t].text)])
    /\ UNCHANGED <<store, lock, next_session, history, req>>

mask_again(t) ==
    /\ pc[t] = "mask_again"
    /\ Goto(t, "masked",
            [locals[t] EXCEPT !.masked_message = mask_characters(locals[t].message)])
    /\ UNCHANGED <<store, lock, next_session, history, req>>

MaskNext == \E t \in {"t1"} : mask_once(t) \/ mask_again(t)

MaskSpec == MaskInit /\ [][MaskNext]_vars

\* ------------------------------------------------------- a run from a backlog
\* The store after A and B went through `rounds` sessions in which B waited
\* (#meet), A was matched with B (#meet) and, in all sessions but the last, A
\* left (#bye); in the last session A relayed `size` texts, with the masking
\* flag on, every third a phone number; B never polled.  B has the
\* notification of every pairing and every leaving, and A's messages.
BacklogNotifications(rounds) ==
    [i \in 1..(2 * rounds - 1) |-> IF i % 2 = 1 THEN Connected ELSE PartnerLeft]

BacklogMessages(size, epoch) ==
    [i \in 1..size |-> Message(IF i % 3 = 0 THEN Hidden ELSE "hi", "A", epoch)]

BacklogInit ==
    \E rounds \in 1..MaxRounds, size \in {QueueCap - 1, QueueCap} :
        /\ available_users = <<>>
        /\ available_set = {}
        /\ active_pairs = [u \in Users |->
                             IF u = "A" THEN "B" ELSE IF u = "B" THEN "A" ELSE None]
        /\ user_states =
             [u \in Users |->
                IF u = "A"
                THEN [UserState EXCEPT !.partner_id = "B", !.partner_session_id = rounds]
                ELSE IF u = "B"
                THEN [UserState EXCEPT !.partner_id = "A", !.partner_session_id = rounds]
                ELSE NoProfile]
        /\ pending_notifications =
             [u \in Users |-> IF u = "B" THEN BacklogNotifications(rounds) ELSE <<>>]
        /\ pending_messages =
             [u \in Users |-> IF u = "B" THEN BacklogMessages(size, rounds) ELSE <<>>]
        /\ lock = Free
        /\ next_session = rounds + 1
        /\ issued = 1..rounds
        /\ awaiting_first_relay = {"B"}
        /\ untold = IF rounds > 1 THEN {"B"} ELSE {}
        /\ fifo = <<>>
        /\ pc = [t \in Threads |-> "idle"]
        /\ req = [t \in Threads |-> NoReq]
        /\ locals = [t \in Threads |-> NoLocals]
        /\ response = [t \in Threads |-> NoResponse]

\* Relays, polls and the masking switch, one request at a time.
BacklogNext ==
    \E t \in {"t1"} :
        \/ Request(t, {"r", "m", "hide"}, Plain)
        \/ toggle_phone_masking(t)
        \/ _handle_message_routing(t)
        \/ routing_append(t)
        \/ inbox_notifications(t)
        \/ inbox_messages(t)
        \/ Return(t)

BacklogSpec == BacklogInit /\ [][BacklogNext]_vars

\* ------------------------------------------------------------------ claims
Waiting(u) == u \in available_set \/ u \in Range(available_users)

\* C1 (exclusivity): in every reachable state, also between the critical
\* sections of interleaved requests, no user is in the waiting queue and a key
\* of active_pairs at the same time.
C1_Exclusivity ==
    \A u \in Users : ~(Waiting(u) /\ active_pairs[u] # None)

\* C2 (pair symmetry): in every reachable state, active_pairs[a] = b implies
\* active_pairs[b] = a, and the profiles of a and b carry the same session
\* epoch, which is not null.
C2_PairSymmetry ==
    \A a \in Users :
        active_pairs[a] # None =>
            LET b == active_pairs[a]
            IN  /\ active_pairs[b] = a
                /\ user_states[a].present
                /\ user_states[b].present
                /\ user_states[a].partner_session_id # NoSession
                /\ user_states[a].partner_session_id = user_states[b].partner_session_id

\* The thread's next step starts with `with self.lock:`.
WaitsForLock(t) == pc[t] \in {"find_partner", "routing", "cleanup_end_chat"}

\* C3 (no operation blocks indefinitely): every started call returns with the
\* lock released, a sweep that found an inactive user included.  A thread that
\* asks for the lock it holds itself never gets it, so the claim needs at
\* least this: no thread waits for a lock that it holds.
C3_NoCallBlocksForever ==
    \A t \in Threads : WaitsForLock(t) => lock # t

\* C4 (reaper scenario): a sweep that found A inactive while A is paired with B
\* completes and leaves A and B unpaired, a disconnect notification for B and
\* no profile for A.  That is what cleanup_end_chat does, so the claim needs
\* that step to be possible once the sweep has found such a user.
C4_ReaperCompletes ==
    \A t \in Threads :
        (/\ pc[t] = "cleanup_end_chat"
         /\ \E a \in locals[t].inactive_users : active_pairs[a] # None)
        => ENABLED cleanup_end_chat(t)

\* u is in a chat that both sides agree on: paired both ways, under one epoch.
InSession(u) ==
    LET p == active_pairs[u]
    IN  /\ p # None
        /\ active_pairs[p] = u
        /\ user_states[u].present
        /\ user_states[p].present
        /\ user_states[u].partner_session_id = user_states[p].partner_session_id
        /\ user_states[u].partner_session_id # NoSession

\* Thread t runs the critical section of _handle_message_routing in this step.
Routes(t) == pc[t] = "routing" /\ pc'[t] # "routing"

\* C5 (match, then relay): right after a pairing, the first relay by either
\* participant, the one who had been waiting included, is queued for the other
\* participant.
C5_FirstRelayIsQueued ==
    [][\A t \in Threads :
          (/\ Routes(t)
           /\ req[t].user \in awaiting_first_relay
           /\ InSession(req[t].user))
          => pc'[t] = "routing_append"]_vars

\* C6 (told first): after a partner ended the chat, no relay of the user who
\* was left gets as far as queueing a message until a response has returned the
\* disconnect notification to that user.
C6_ToldBeforeRelay ==
    \A t \in Threads : pc[t] = "routing_append" => req[t].user \notin untold

\* C7 (no cross-talk): whenever a paired user drains, every message returned
\* was relayed by the user's current partner within the current session epoch.
C7_NoCrossTalk ==
    \A t \in Threads :
        (/\ pc[t] = "done"
         /\ response[t].kind = "inbox"
         /\ active_pairs[req[t].user] # None)
        => \A i \in 1..Len(response[t].messages) :
             /\ response[t].messages[i].sender = active_pairs[req[t].user]
             /\ response[t].messages[i].epoch =
                  user_states[req[t].user].partner_session_id

\* Thread t runs the critical section of find_partner in this step.
Matches(t) == pc[t] = "find_partner" /\ pc'[t] # "find_partner"

\* C8 (FIFO fairness): a request for a match made while somebody else waits is
\* paired with the user who has been waiting longest, and the others keep
\* waiting in the order in which they started; leaving the queue keeps the
\* order of those who stay.  fifo is that order, kept apart from the deque.
C8_FifoFairness ==
    [][/\ available_users' = fifo'
       /\ \A t \in Threads :
            Matches(t) =>
              LET user_id == req[t].user
                  others == Without(fifo, user_id)
              IN  IF others = <<>>
                  THEN /\ response'[t].kind = "waiting"
                       /\ available_users' = <<user_id>>
                  ELSE /\ active_pairs'[user_id] = Head(others)
                       /\ active_pairs'[Head(others)] = user_id
                       /\ available_users' = Tail(others)]_vars

\* A request has been paired while two users waited: the one who waited
\* longer is the partner, the other one is still waiting.
C8_Witness ==
    \E t \in Threads :
        /\ pc[t] = "find_partner_notify"
        /\ Len(available_users) >= 1
        /\ active_pairs[req[t].user] = locals[t].partner_id

\* C9 (epoch freshness): every pairing stamps both participants with one
\* session epoch, and no profile has carried that epoch before.
C9_EpochFreshness ==
    [][\A t \in Threads :
          (pc[t] = "find_partner" /\ pc'[t] = "find_partner_notify") =>
            LET user_id == req[t].user
                partner_id == active_pairs'[user_id]
                epoch == user_states'[user_id].partner_session_id
            IN  /\ epoch # NoSession
                /\ user_states'[partner_id].partner_session_id = epoch
                /\ epoch \notin issued
                /\ \A u \in Users : user_states[u].partner_session_id # epoch]_vars

\* A user who has carried an epoch before has just been paired again.
C9_Witness ==
    \E t \in Threads :
        /\ pc[t] = "find_partner_notify"
        /\ Cardinality(issued) = 2
        /\ user_states[req[t].user].partner_session_id = 2

\* The relay of u is one that C10 speaks of.
Unpaired(u) ==
    \/ active_pairs[u] = None
    \/ ~user_states[u].present
    \/ ~user_states[active_pairs[u]].present
    \/ user_states[u].partner_session_id #
         user_states[active_pairs[u]].partner_session_id

C11_QueueCap ==
    /\ [](\A u \in Users : Len(pending_messages[u]) <= QueueCap)
    /\ [][\A t \in Threads :
            pc[t] = "routing_append" /\ pc'[t] # "routing_append" =>
                LET partner_id == locals[t].partner_id
                    old == pending_messages[partner_id]
                    new == pending_messages'[partner_id]
                    m == Message(locals[t].masked_message, req[t].user,
                                 user_states[req[t].user].partner_session_id)
                IN  /\ new = IF Len(old) = QueueCap
                             THEN [i \in 1..QueueCap |->
                                     IF i < QueueCap THEN old[i + 1] ELSE m]
                             ELSE [i \in 1..(Len(old) + 1) |->
                                     IF i <= Len(old) THEN old[i] ELSE m]
                    /\ \A u \in Users \ {partner_id} :
                         pending_messages'[u] = pending_messages[u]
                    /\ response'[t].kind = "sent"]_vars

\* A relay to a full queue was confirmed: the backlog moved up by one place.
C11_Witness ==
    \E t \in Threads :
        /\ pc[t] = "done"
        /\ response[t].kind = "sent"
        /\ Len(pending_messages["B"]) = QueueCap
        /\ pending_messages["B"][2].text = Hidden
        /\ pending_messages["B"][QueueCap].text = "hi"

\* The step of thread t that runs the critical section of end_chat for a
\* paired caller who sent cmd.
Ends(t, cmd) == pc[t] = "idle" /\ pc'[t] = "end_chat_notify" /\ req'[t].cmd = cmd

\* The step of thread t that appends the disconnect notification for cmd.
Notifies(t, cmd) ==
    pc[t] = "end_chat_notify" /\ pc'[t] # "end_chat_notify" /\ req[t].cmd = cmd

\* The notifications `note` that user u has still to read: those in u's queue
\* and those in the list a poll of u took out of the store (line 356) and has
\* not yet put into its response (lines 360-363).
Unread(u, note) ==
    Cardinality({i \in DOMAIN pending_notifications[u] :
                   pending_notifications[u][i] = note})
    + Cardinality(UNION {{<<s, i>> : i \in {j \in DOMAIN locals[s].notifications :
                                              locals[s].notifications[j] = note}} :
                         s \in {r \in Threads : /\ pc[r] = "inbox_messages"
                                                /\ req[r].user = u}})

\* C12: #bye by a user paired with a partner removes both directions from
\* active_pairs, clears partner and epoch in both profiles, leaves neither of
\* the two in the waiting queue, and gives the partner exactly one more
\* disconnect notification to read (and nobody else one).
C12_EndTransition ==
    [][\A t \in Threads :
         /\ Ends(t, "bye") =>
               LET user_id == req'[t].user
                   partner_id == active_pairs[user_id]
               IN  \A u \in {user_id, partner_id} :
                     /\ active_pairs'[u] = None
                     /\ user_states'[u].partner_id = None
                     /\ user_states'[u].partner_session_id = NoSession
                     /\ u \notin available_set'
                     /\ u \notin Range(available_users')
         /\ Notifies(t, "bye") =>
               \A u \in Users :
                 Unread(u, PartnerLeft)' =
                   IF u = locals[t].partner_id
                   THEN Unread(u, PartnerLeft) + 1
                   ELSE Unread(u, PartnerLeft)]_vars

\* C13: #again by a paired user gives the ended partner exactly one more
\* disconnect notification to read and nobody else one, and the rematch that
\* follows gives nobody a disconnect notification, whether it pairs the user
\* (with the former partner or with somebody else) or makes the user wait.
C13_AgainNotifiesOnce ==
    [][\A t \in Threads :
         /\ Notifies(t, "again") =>
               \A u \in Users :
                 Unread(u, PartnerLeft)' =
                   IF u = locals[t].partner_id
                   THEN Unread(u, PartnerLeft) + 1
                   ELSE Unread(u, PartnerLeft)
         /\ /\ req[t].cmd = "again"
            /\ pc[t] \in {"find_partner", "find_partner_notify"}
            /\ pc'[t] # pc[t]
            => \A u \in Users : Unread(u, PartnerLeft)' = Unread(u, PartnerLeft)]_vars

\* Thread t serves an #again that has ended a session (end_chat returned the
\* partner, line 326) and has not yet entered find_partner (line 329).
BetweenEndAndRematch(t) ==
    /\ pc[t] = "find_partner"
    /\ req[t].cmd = "again"
    /\ locals[t].partner_id # None

\* C14: #again is one atomic end-then-rematch: while a thread is between the
\* end of the old session and the rematch, no other thread takes a step that
\* reads or writes the store.
C14_AgainIsAtomic ==
    [][\A t \in Threads :
         BetweenEndAndRematch(t) =>
             \A s \in Threads \ {t} : pc'[s] = pc[s] \/ pc[s] = "done"]_vars

\* r is the last (up to) n elements of s, in the order of s.
IsTailOf(r, s, n) ==
    /\ Len(r) = IF Len(s) < n THEN Len(s) ELSE n
    /\ \A i \in 1..Len(r) : r[i] = s[Len(s) - Len(r) + i]

\* C15: #m takes the user's pending notifications and pending messages out of
\* the store, leaving both queues empty; it returns the 'empty' response
\* exactly when both were empty, and otherwise the last (up to) 3
\* notifications and the last (up to) 5 messages in their queue order.
C15_Drain ==
    [][\A t \in Threads :
         /\ pc[t] = "inbox_notifications" /\ pc'[t] # "inbox_notifications" =>
               /\ locals'[t].notifications = pending_notifications[req[t].user]
               /\ pending_notifications'[req[t].user] = <<>>
         /\ pc[t] = "inbox_messages" /\ pc'[t] # "inbox_messages" =>
               LET user_id == req[t].user
                   notifications == locals[t].notifications
                   messages == pending_messages[user_id]
               IN  /\ pending_notifications'[user_id] = <<>>
                   /\ pending_messages'[user_id] = <<>>
                   /\ response'[t].kind \in {"inbox", "inbox_empty"}
                   /\ response'[t].kind = "inbox_empty"
                        <=> notifications = <<>> /\ messages = <<>>
                   /\ IsTailOf(response'[t].notifications, notifications, 3)
                   /\ IsTailOf(response'[t].messages, messages, 5)]_vars

\* A poll returned 3 notifications and 5 messages to a user who had more of
\* both: only the first poll of the backlog returns that many, and after
\* three sessions the backlog holds five notifications.
C15_Witness ==
    \E t \in Threads :
        /\ pc[t] = "done"
        /\ response[t].kind = "inbox"
        /\ Len(response[t].notifications) = 3
        /\ Len(response[t].messages) = 5
        /\ 2 * (next_session - 1) - 1 > 3
        /\ pending_notifications[req[t].user] = <<>>
        /\ pending_messages[req[t].user] = <<>>

\* C16: on a successful relay the text stored for the recipient is the
\* redacted text if the sender's masking flag is on and the submitted text if
\* it is off, and the confirmation returned to the sender carries the text
\* exactly as the sender submitted it, whatever the flag.
C16_ConfirmationEchoesOriginal ==
    [][\A t \in Threads :
         pc[t] = "routing_append" /\ pc'[t] # "routing_append" =>
             LET user_id == req[t].user
                 queue == pending_messages'[locals[t].partner_id]
             IN  /\ queue # <<>>
                 /\ queue[Len(queue)].text =
                      IF user_states[user_id].phone_masking_enabled
                      THEN mask_phone_numbers(req[t].text)
                      ELSE req[t].text
                 /\ response'[t].kind = "sent"
                 /\ response'[t].text = req[t].text]_vars

\* The step of thread t that takes up a request cmd of a user who is paired.
PairedCallerSends(t, cmd) ==
    /\ pc[t] = "idle"
    /\ pc'[t] # "idle"
    /\ req'[t].cmd = cmd
    /\ req'[t].user \in Users
    /\ active_pairs[req'[t].user] # None

Sends(t, cmd, text) ==
    /\ pc[t] = "idle"
    /\ pc'[t] # "idle"
    /\ req'[t].cmd = cmd
    /\ req'[t].text = text

\* C18: #r with nothing after the prefix returns the usage message and leaves
\* the waiting queue, active_pairs, the session epochs, the masking flags and
\* every user's two mailboxes, the sender's pending notifications too, as
\* they were.
C18_EmptyCommand ==
    [][\A t \in Threads :
         Sends(t, "r", "") =>
             /\ pc'[t] = "done"
             /\ response'[t].kind = "usage"
             /\ UNCHANGED <<available_users, available_set, active_pairs,
                            pending_notifications, pending_messages>>
             /\ \A u \in Users :
                  /\ user_states'[u].partner_session_id
                       = user_states[u].partner_session_id
                  /\ user_states'[u].phone_masking_enabled
                       = user_states[u].phone_masking_enabled]_vars

\* A user with pending notifications sent a bare #r, got the usage message and
\* still has the notifications.
C18_Witness ==
    \E t \in Threads :
        /\ pc[t] = "done"
        /\ req[t].cmd = "r"
        /\ req[t].text = ""
        /\ response[t].kind = "usage"
        /\ pending_notifications[req[t].user] # <<>>

\* The couples: the sets {u, v} of two users who are each other's partner.
Couples ==
    {c \in SUBSET Users :
        \E u, v \in c : /\ u # v
                        /\ c = {u, v}
                        /\ active_pairs[u] = v
                        /\ active_pairs[v] = u}

\* C19: in every reachable state get_system_stats reports as active_pairs the
\* number of couples, which is half the number of paired users, and as
\* waiting_users the number of users who are waiting.
C19_Statistics ==
    \A t \in Threads :
        pc[t] = "done" /\ response[t].kind = "stats" =>
            /\ response[t].active_pairs = Cardinality(Couples)
            /\ 2 * response[t].active_pairs
                 = Cardinality({u \in Users : active_pairs[u] # None})
            /\ response[t].waiting_users = Cardinality({u \in Users : Waiting(u)})

\* text holds n digits in a row.
HasDigitRun(text, n) ==
    \E i \in 1..(Len(text) - n + 1) : \A j \in i..(i + n - 1) : text[j] \in Digits

\* text holds a ten-digit number: ten digits in a row, no digit before or
\* behind them.
HasPhoneNumber(text) ==
    \E i \in 1..(Len(text) - 9) :
        /\ \A j \in i..(i + 9) : text[j] \in Digits
        /\ i = 1 \/ text[i - 1] \notin Digits
        /\ i + 10 > Len(text) \/ text[i + 10] \notin Digits

\* Redacting a redacted text changes nothing.
Idempotent ==
    \A t \in Threads :
        pc[t] = "masked" => locals[t].masked_message = locals[t].message

\* C20: mask_phone_numbers(mask_phone_numbers(x)) = mask_phone_numbers(x) for
\* every text x, and the redacted form of a text that holds a ten-digit phone
\* number holds no run of 8 or more digits.
C20_Redaction ==
    /\ Idempotent
    /\ \A t \in Threads :
         pc[t] \in {"mask_again", "masked"} /\ HasPhoneNumber(req[t].text) =>
             ~HasDigitRun(locals[t].message, 8)

\* Thread t takes the step, and no other thread is inside a critical section
\* while it does.
StepsAlone(t) == pc'[t] # pc[t] /\ lock \in {Free, t}

\* C21: every step that writes the waiting queue, active_pairs, a profile or
\* a mailbox is serialized behind the lock: it is never taken while another
\* thread holds the lock.
C21_MutationsSerialized ==
    [][store' # store => \E t \in Threads : StepsAlone(t)]_vars

\* C22: a relay request of a user whose notification queue holds an unread
\* disconnect notification returns that disconnect notification and appends
\* no message to any queue.
C22_DisconnectFirst ==
    [][\A t \in Threads :
         Routes(t) /\ PartnerLeft \in Range(pending_notifications[req[t].user]) =>
             /\ pc'[t] = "done"
             /\ response'[t].kind = "notification"
             /\ response'[t].text = PartnerLeft
             /\ UNCHANGED pending_messages]_vars

\* The only number the code has for notifications: a poll shows the last 3
\* (line 361).
NotificationWindow == 3

\* C23: whatever pairings and session ends a user who never polls goes
\* through, the notifications stored for that user never exceed a fixed cap,
\* the most recent ones being kept.
C23_NotificationCap ==
    \A u \in Users : Len(pending_notifications[u]) <= NotificationWindow

\* C24: in every reachable state, also while two match requests of one user
\* are served at once, no user is paired with themselves.
C24_NoSelfPairing ==
    \A u \in Users :
        /\ active_pairs[u] # u
        /\ user_states[u].partner_id # u

\* Two match requests of one user were served at once: one has just paired
\* the user, the other is about to enter find_partner.
C24_Witness ==
    \E s, t \in Threads :
        /\ s # t
        /\ req[s].user = req[t].user
        /\ req[s].cmd = "meet"
        /\ req[t].cmd = "meet"
        /\ pc[s] = "done"
        /\ response[s].kind = "connected"
        /\ pc[t] = "find_partner"
        /\ active_pairs[req[s].user] # None

\* The step of thread t that completes a #hide: the assignment of line 222.
Toggles(t) == pc[t] = "toggle_store" /\ pc'[t] # "toggle_store"

\* C25: each completed #hide flips the masking flag of its user exactly once,
\* also when several #hide of one user are served at once; so after n
\* completed #hide the flag is its initial value for even n and the opposite
\* for odd n.
C25_HideFlipsOnce ==
    [][\A t \in Threads :
         Toggles(t) =>
             user_states'[req[t].user].phone_masking_enabled
               = ~user_states[req[t].user].phone_masking_enabled]_vars

\* Thread t appends the message of its relay and confirms it (lines 394-401).
Confirms(t) ==
    /\ pc[t] = "routing_append"
    /\ pc'[t] = "done"
    /\ response'[t].kind = "sent"

\* C26: a relay that was confirmed is not lost to a concurrent drain.  When
\* the sender gets "sent", its message is in the recipient's queue, where the
\* next drain finds it.  (The drain pops and renders in one step of the model,
\* so a confirmed append lands either in the queue or in a list whose response
\* is already built; the append that lands between lines 357 and 363 is
\* rendered like one that came before the pop.)
C26_ConfirmedRelayKept ==
    [][\A t \in Threads :
         Confirms(t) =>
             LET queue == pending_messages'[locals[t].partner_id]
             IN  /\ queue # <<>>
                 /\ queue[Len(queue)] =
                      Message(locals[t].masked_message, req[t].user,
                              user_states[req[t].user].partner_session_id)]_vars

====
